---- MODULE Spec2Model ----
(***************************************************************************)
(* Model of the sentiment-analysis HTTP service (app.py, models.py,        *)
(* sentiment_analyzer.py).                                                 *)
(*                                                                         *)
(* State: analyzer is the module-level handle (app.py 44-49); pc is the    *)
(* position of the POST /predict request being served, body what it       *)
(* carried, text the validated request.text, raw what the classifier did  *)
(* for it, result what analyze returned, resp the response, calls the     *)
(* number of classifier invocations and sent the number of responses for  *)
(* it; last is the latest answer of the other endpoints.                   *)
(*                                                                         *)
(* Strings are modelled by their run-length form: a text is the kind of    *)
(* its first run ("ws" = whitespace, "ch" = anything else) and the lengths *)
(* of its maximal runs, whose kinds alternate.  len() and str.strip() are  *)
(* computed on that form.  Scores are integers in units of 10^-(Digits+1), *)
(* so that round(score, 4) is a real rounding.  Messages are sequences of  *)
(* string fragments, so that an f-string is a concatenation.               *)
(***************************************************************************)
EXTENDS Integers, Sequences, FiniteSets, TLC

VARIABLES analyzer, pc, body, text, raw, result, resp, calls, sent, last

vars == <<analyzer, pc, body, text, raw, result, resp, calls, sent, last>>

----------------------------------------------------------------------------
(* Bounds of the model *)

MaxRuns == 2
MaxPad == 1
MaxLabels == 2

(* Program constants *)

MAX_LENGTH == 5000
Digits == 4

ScoreOne == 10 ^ (Digits + 1)

DETAIL_EMPTY == <<"Le texte ne peut pas être vide">>
DETAIL_UNAVAILABLE == <<"Service indisponible - Modèle non chargé">>
DETAIL_INTERNAL == <<"Erreur interne du serveur">>
MODEL_NAME == "distilbert-base-uncased-finetuned-sst-2-english"
AVAILABLE_ENDPOINTS == <<"/docs", "/predict", "/health">>

----------------------------------------------------------------------------
(* Inputs *)

RunLens == (1..MaxPad) \cup {MAX_LENGTH - 1, MAX_LENGTH, MAX_LENGTH + 1}

RunSeqs == UNION {[1..n -> RunLens] : n \in 1..MaxRuns}

EmptyText == [first |-> "ch", runs |-> <<>>]

Texts == {EmptyText} \cup {[first |-> k, runs |-> r] : k \in {"ws", "ch"}, r \in RunSeqs}

Bodies == {[kind |-> "absent"], [kind |-> "nonstring"]}
            \cup {[kind |-> "str", text |-> t] : t \in Texts}

Labels == {"POSITIVE", "NEGATIVE", "NEUTRAL"}

Scores == {ScoreOne \div 2 - 5, ScoreOne - 4, ScoreOne + 4, ScoreOne + 6}

Pairs == [label : Labels, score : Scores]

ErrMsgs == {<<"index out of range in self">>, <<"CUDA out of memory">>}

Outcomes == {[kind |-> "raise", msg |-> m] : m \in ErrMsgs}
              \cup {[kind |-> "return", scores |-> s] :
                      s \in UNION {[1..n -> Pairs] : n \in 0..MaxLabels}}

Routed == {"/", "/health", "/predict", "/models", "/docs", "/redoc"}

Paths == Routed \cup {"/nonexistent", "/predict/x"}

None == [kind |-> "none", status |-> 0, path |-> "none"]

----------------------------------------------------------------------------
(* Strings *)

KindAt(t, i) == IF i % 2 = 1 THEN t.first ELSE IF t.first = "ws" THEN "ch" ELSE "ws"

RECURSIVE SumSeq(_)
SumSeq(s) == IF s = <<>> THEN 0 ELSE Head(s) + SumSeq(Tail(s))

StrLen(t) == SumSeq(t.runs)

Strip(t) ==
  LET n == Len(t.runs)
      lo == IF n > 0 /\ KindAt(t, 1) = "ws" THEN 2 ELSE 1
      hi == IF n > 0 /\ KindAt(t, n) = "ws" THEN n - 1 ELSE n
  IN IF lo > hi THEN EmptyText
     ELSE [first |-> "ch", runs |-> SubSeq(t.runs, lo, hi)]

Falsy(t) == StrLen(t) = 0

----------------------------------------------------------------------------
(* models.py *)

Invalid == [ok |-> FALSE]

(* max_length compared with >= : a text of exactly MAX_LENGTH is refused *)
TextRequest_OffByOne(b) ==
  IF b.kind = "absent" THEN Invalid
  ELSE IF b.kind # "str" THEN Invalid
  ELSE IF StrLen(b.text) >= MAX_LENGTH THEN Invalid
  ELSE IF Falsy(b.text) \/ Falsy(Strip(b.text)) THEN Invalid
  ELSE [ok |-> TRUE, text |-> Strip(b.text)]

(* validate_text run as a "before" validator: the length is that of the trimmed text *)
TextRequest_StripFirst(b) ==
  IF b.kind = "absent" THEN Invalid
  ELSE IF b.kind # "str" THEN Invalid
  ELSE IF Falsy(b.text) \/ Falsy(Strip(b.text)) THEN Invalid
  ELSE IF StrLen(Strip(b.text)) > MAX_LENGTH THEN Invalid
  ELSE [ok |-> TRUE, text |-> Strip(b.text)]

(* TextRequest: the field is required, must be a str, max_length is checked *)
(* on the value as received, and only then validate_text runs and strips.   *)
TextRequest(b) ==
  IF b.kind = "absent" THEN Invalid
  ELSE IF b.kind # "str" THEN Invalid
  ELSE IF StrLen(b.text) > MAX_LENGTH THEN Invalid
  ELSE IF Falsy(b.text) \/ Falsy(Strip(b.text)) THEN Invalid
  ELSE [ok |-> TRUE, text |-> Strip(b.text)]

(* the response model without its Literal and ge/le constraints *)
SentimentResponse_Unchecked(r) ==
  [ok |-> TRUE, sentiment |-> r.sentiment, confidence |-> r.confidence]

SentimentResponse(r) ==
  IF r.sentiment \in {"POSITIVE", "NEGATIVE"} /\ r.confidence >= 0 /\ r.confidence <= ScoreOne
  THEN [ok |-> TRUE, sentiment |-> r.sentiment, confidence |-> r.confidence]
  ELSE Invalid

----------------------------------------------------------------------------
(* sentiment_analyzer.py *)

(* a maximum that keeps the last of several equal scores *)
RECURSIVE MaxByScore_Last(_)
MaxByScore_Last(s) ==
  IF Len(s) = 1 THEN s[1]
  ELSE LET b == MaxByScore_Last(SubSeq(s, 1, Len(s) - 1))
       IN IF s[Len(s)].score >= b.score THEN s[Len(s)] ELSE b

(* max(results[0], key=score): the first element holding the largest score *)
RECURSIVE MaxByScore(_)
MaxByScore(s) ==
  IF Len(s) = 1 THEN s[1]
  ELSE LET b == MaxByScore(SubSeq(s, 1, Len(s) - 1))
       IN IF s[Len(s)].score > b.score THEN s[Len(s)] ELSE b

(* round(x, 4), to the nearest multiple of 10 units, halves to even *)
Round4(x) ==
  LET q == x \div 10
      r == x % 10
  IN 10 * (IF r > 5 \/ (r = 5 /\ q % 2 = 1) THEN q + 1 ELSE q)

analyze(o) ==
  IF o.kind = "raise"
  THEN [raised |-> TRUE, msg |-> <<"Erreur lors de l'analyse du sentiment: ">> \o o.msg]
  ELSE IF o.scores = <<>>
  THEN [raised |-> TRUE,
        msg |-> <<"Erreur lors de l'analyse du sentiment: ", "max() arg is an empty sequence">>]
  ELSE LET best_result == MaxByScore(o.scores)
       IN [raised |-> FALSE,
           value |-> [sentiment |-> best_result.label,
                      confidence |-> Round4(best_result.score)]]

----------------------------------------------------------------------------
(* app.py: responses *)

(* the framework's default answer to a RequestValidationError *)
validation_exception_handler_Default ==
  [status |-> 422, detail |-> <<"Field required">>]

validation_exception_handler == [status |-> 400, detail |-> DETAIL_EMPTY]

(* a 404 answer without the endpoint list *)
not_found_handler_Default ==
  [status |-> 404, error |-> "Not Found", available_endpoints |-> <<>>]

not_found_handler ==
  [status |-> 404, error |-> "Endpoint non trouvé", available_endpoints |-> AVAILABLE_ENDPOINTS]

(* a health check that does not look at the handle *)
health_check_Always(an) ==
  [status |-> 200, health |-> "healthy", model |-> MODEL_NAME]

health_check(an) ==
  IF an = "None" THEN [status |-> 503, detail |-> DETAIL_UNAVAILABLE]
  ELSE [status |-> 200, health |-> "healthy", model |-> MODEL_NAME]

get_model_info ==
  [status |-> 200, model_name |-> MODEL_NAME, labels |-> <<"NEGATIVE", "POSITIVE">>]

serve_homepage(static) ==
  IF static THEN [status |-> 200, file |-> "static/index.html"]
  ELSE [status |-> 200, docs |-> "/docs"]

(* detail=str(e): the caught exception's message is sent to the client *)
InternalError_Leaky(msg) == [status |-> 500, detail |-> msg]

(* except Exception as e (lines 120-125): the detail is a constant *)
InternalError(msg) == [status |-> 500, detail |-> DETAIL_INTERNAL]

----------------------------------------------------------------------------
(* app.py: state and operations *)

Init ==
  /\ analyzer \in {"loaded", "None"}
  /\ pc = "idle"
  /\ body = None
  /\ text = None
  /\ raw = None
  /\ result = None
  /\ resp = None
  /\ calls = 0
  /\ sent = 0
  /\ last = None

(* A POST /predict arrives; the previous request, if any, has been answered *)
PredictReceive(b) ==
  /\ pc \in {"idle", "RESPONDED", "ERROR"}
  /\ pc' = "RECEIVED"
  /\ body' = b
  /\ text' = None
  /\ raw' = None
  /\ result' = None
  /\ resp' = None
  /\ calls' = 0
  /\ sent' = 0
  /\ UNCHANGED <<analyzer, last>>

(* The body is parsed into a TextRequest before predict_sentiment is entered *)
PredictValidate ==
  /\ pc = "RECEIVED"
  /\ LET v == TextRequest(body)
     IN IF v.ok
        THEN /\ pc' = "VALIDATED"
             /\ text' = v.text
             /\ UNCHANGED <<resp, sent>>
        ELSE /\ pc' = "ERROR"
             /\ resp' = validation_exception_handler
             /\ sent' = sent + 1
             /\ UNCHANGED text
  /\ UNCHANGED <<analyzer, body, raw, result, calls, last>>

(* the checks the handler makes before the analysis (90-103); status 0: go on *)
Precheck_TextOnly(an, t) ==
  IF Falsy(t) \/ Falsy(Strip(t)) THEN [status |-> 400, detail |-> DETAIL_EMPTY]
  ELSE [status |-> 0]

Precheck(an, t) ==
  IF an = "None" THEN [status |-> 503, detail |-> DETAIL_UNAVAILABLE]
  ELSE IF Falsy(t) \/ Falsy(Strip(t)) THEN [status |-> 400, detail |-> DETAIL_EMPTY]
  ELSE [status |-> 0]

(* predict_sentiment up to the return of analyzer.analyze (88-107, 117-125) *)
PredictAnalyze ==
  /\ pc = "VALIDATED"
  /\ LET c == Precheck(analyzer, text)
     IN IF c.status # 0
        THEN /\ pc' = "ERROR"
             /\ resp' = c
             /\ sent' = sent + 1
             /\ UNCHANGED <<raw, result, calls>>
        ELSE \E o \in Outcomes :
               LET r == analyze(o)
               IN /\ raw' = o
                  /\ calls' = calls + 1
                  /\ IF r.raised
                     THEN /\ pc' = "ERROR"
                          /\ resp' = InternalError(r.msg)
                          /\ sent' = sent + 1
                          /\ UNCHANGED result
                     ELSE /\ pc' = "ANALYZED"
                          /\ result' = r.value
                          /\ UNCHANGED <<resp, sent>>
  /\ UNCHANGED <<analyzer, body, text, last>>

(* a handler that analyses again when the response cannot be built *)
PredictRespond_Retry ==
  /\ pc = "ANALYZED"
  /\ LET r == SentimentResponse(result)
     IN IF r.ok
        THEN /\ pc' = "RESPONDED"
             /\ resp' = [status |-> 200, sentiment |-> r.sentiment, confidence |-> r.confidence]
             /\ sent' = sent + 1
        ELSE /\ pc' = "VALIDATED"
             /\ UNCHANGED <<resp, sent>>
  /\ raw' = None
  /\ UNCHANGED <<analyzer, body, text, result, calls, last>>

(* SentimentResponse(...) is built and returned (109-115), or fails (120-125) *)
PredictRespond ==
  /\ pc = "ANALYZED"
  /\ LET r == SentimentResponse(result)
     IN IF r.ok
        THEN /\ pc' = "RESPONDED"
             /\ resp' = [status |-> 200, sentiment |-> r.sentiment, confidence |-> r.confidence]
        ELSE /\ pc' = "ERROR"
             /\ resp' = InternalError(<<"validation error for SentimentResponse">>)
  /\ sent' = sent + 1
  /\ raw' = None
  /\ UNCHANGED <<analyzer, body, text, result, calls, last>>

(* The handler is synchronous: no other request is served while it runs *)
HandlerIdle == pc # "ANALYZED"

HealthCheck ==
  /\ HandlerIdle
  /\ last' = [path |-> "/health", resp |-> health_check(analyzer)]
  /\ UNCHANGED <<analyzer, pc, body, text, raw, result, resp, calls, sent>>

GetModelInfo ==
  /\ HandlerIdle
  /\ last' = [path |-> "/models", resp |-> get_model_info]
  /\ UNCHANGED <<analyzer, pc, body, text, raw, result, resp, calls, sent>>

ServeHomepage ==
  /\ HandlerIdle
  /\ \E static \in BOOLEAN : last' = [path |-> "/", resp |-> serve_homepage(static)]
  /\ UNCHANGED <<analyzer, pc, body, text, raw, result, resp, calls, sent>>

(* Any path no route matches is answered by the 404 handler *)
NotFound ==
  /\ HandlerIdle
  /\ \E p \in Paths \ Routed : last' = [path |-> p, resp |-> not_found_handler]
  /\ UNCHANGED <<analyzer, pc, body, text, raw, result, resp, calls, sent>>

Next ==
  \/ \E b \in Bodies : PredictReceive(b)
  \/ PredictValidate
  \/ PredictAnalyze
  \/ PredictRespond
  \/ HealthCheck
  \/ GetModelInfo
  \/ ServeHomepage
  \/ NotFound

Spec == Init /\ [][Next]_vars

----------------------------------------------------------------------------
(* Vocabulary of the properties *)

Terminal == pc \in {"RESPONDED", "ERROR"}

IsText == body.kind = "str"

Trimmed == Strip(body.text)

ValidLabel(l) == l \in {"POSITIVE", "NEGATIVE"}

ValidConfidence(c) == c >= 0 /\ c <= ScoreOne

Answered200 ==
  /\ resp.status = 200
  /\ ValidLabel(resp.sentiment)
  /\ ValidConfidence(resp.confidence)

BadRequest == resp = [status |-> 400, detail |-> <<"Le texte ne peut pas être vide">>]

Unavailable == resp = [status |-> 503, detail |-> <<"Service indisponible - Modèle non chargé">>]

ServerError == resp = [status |-> 500, detail |-> <<"Erreur interne du serveur">>]

----------------------------------------------------------------------------
(* C1 as stated: every text whose trimmed value is non-empty and at most    *)
(* 5000 characters long is answered 200 with a valid sentiment and a        *)
(* confidence in [0,1].                                                     *)
C1_TrimmedWithinLimitIs200 ==
  (Terminal /\ IsText /\ ~Falsy(Trimmed) /\ StrLen(Trimmed) <= MAX_LENGTH) => Answered200

(* C1 amended: a text of at most 5000 characters as received whose trimmed  *)
(* value is non-empty is never answered 400: it is answered 503 when the    *)
(* model is not loaded; when it is loaded the classifier is invoked once    *)
(* and the answer is 200 with analyze's label and confidence when the label *)
(* is POSITIVE or NEGATIVE and the confidence lies in [0,1], 500 otherwise. *)
C1_ValidTextOutcome ==
  (Terminal /\ IsText /\ StrLen(body.text) <= MAX_LENGTH /\ ~Falsy(Trimmed)) =>
    IF analyzer = "None" THEN Unavailable /\ calls = 0
    ELSE /\ calls = 1
         /\ IF result # None /\ ValidLabel(result.sentiment) /\ ValidConfidence(result.confidence)
            THEN /\ Answered200
                 /\ resp.sentiment = result.sentiment
                 /\ resp.confidence = result.confidence
            ELSE ServerError

C1_Witness ==
  /\ pc = "RESPONDED"
  /\ IsText
  /\ Len(body.text.runs) > 1
  /\ StrLen(body.text) = MAX_LENGTH
  /\ Answered200

(* C2: a body without text, with a text that is no string, or with an empty *)
(* or all-whitespace text of any length is answered 400 with the detail     *)
(* "Le texte ne peut pas être vide", never 422, and is never analysed.      *)
C2_InvalidBodyIs400 ==
  (Terminal /\ (body.kind \in {"absent", "nonstring"} \/ (IsText /\ Falsy(Trimmed)))) =>
    BadRequest /\ calls = 0

C2_Witness ==
  /\ pc = "ERROR"
  /\ IsText
  /\ StrLen(body.text) > MAX_LENGTH
  /\ Falsy(Trimmed)
  /\ BadRequest

(* C3 as stated: with the model absent every POST /predict is answered 503, *)
(* whatever its body.                                                       *)
C3_AbsentModelAlways503 ==
  (Terminal /\ analyzer = "None") => Unavailable

(* C3 amended: with the model absent the classifier is never reached; a     *)
(* body that passes request validation is answered 503 with the generic     *)
(* detail, and a body that fails it is answered 400 first, because request  *)
(* validation runs before the handler's availability check.                 *)
C3_AbsentModelOutcome ==
  (Terminal /\ analyzer = "None") =>
    /\ calls = 0
    /\ result = None
    /\ IF IsText /\ StrLen(body.text) <= MAX_LENGTH /\ ~Falsy(Trimmed)
       THEN Unavailable
       ELSE BadRequest

C3_Witness ==
  /\ pc = "ERROR"
  /\ analyzer = "None"
  /\ IsText
  /\ ~Falsy(Trimmed)
  /\ Unavailable

(* C4: a text longer than 5000 characters as received is answered 400 and   *)
(* never reaches the handler or the classifier, also when its trimmed value *)
(* is non-empty and within the limit.                                       *)
C4_RawLengthRejected ==
  (IsText /\ StrLen(body.text) > MAX_LENGTH) =>
    /\ pc \in {"RECEIVED", "ERROR"}
    /\ calls = 0
    /\ text = None
    /\ pc = "ERROR" => BadRequest

C4_Witness ==
  /\ pc = "ERROR"
  /\ analyzer = "loaded"
  /\ IsText
  /\ StrLen(body.text) > MAX_LENGTH
  /\ ~Falsy(Trimmed)
  /\ StrLen(Trimmed) <= MAX_LENGTH
  /\ BadRequest

(* C5: when the classifier raises, the answer is 500 with the detail        *)
(* "Erreur interne du serveur"; no fragment of the classifier's message is  *)
(* in the body, and every failure of /predict carries one of three constant *)
(* details, one each for 400, 503 and 500.                                  *)
C5_GenericFailureDetail ==
  /\ (pc = "ERROR" /\ raw.kind = "raise") => ServerError
  /\ pc = "ERROR" =>
       /\ resp.status \in {400, 503, 500}
       /\ resp.status = 400 => BadRequest
       /\ resp.status = 503 => Unavailable
       /\ resp.status = 500 => ServerError
       /\ \A m \in ErrMsgs : \A i \in DOMAIN resp.detail : \A j \in DOMAIN m :
            resp.detail[i] # m[j]

C5_Witness ==
  /\ pc = "ERROR"
  /\ analyzer = "loaded"
  /\ raw.kind = "raise"
  /\ calls = 1
  /\ ServerError

(* C6: /health answers 200 "healthy" exactly when the model was loaded at   *)
(* startup and 503 otherwise, and no step of any request changes the        *)
(* model-availability state.                                                *)
C6_HealthReflectsStartup ==
  /\ [](last.path = "/health" =>
          IF analyzer = "loaded"
          THEN last.resp.status = 200 /\ last.resp.health = "healthy"
          ELSE last.resp.status = 503)
  /\ [][analyzer' = analyzer]_vars

C6_Witness ==
  /\ last.path = "/health"
  /\ last.resp.status = 200
  /\ pc = "ERROR"
  /\ resp.status = 500

(* C7: a path no route matches is answered 404 with an error text and the   *)
(* one fixed list /docs, /predict, /health, whatever the model state.       *)
C7_UnknownPathIs404 ==
  (last.path # "none" /\ last.path \notin {"/", "/health", "/predict", "/models", "/docs", "/redoc"}) =>
    /\ last.resp.status = 404
    /\ last.resp.error = "Endpoint non trouvé"
    /\ last.resp.available_endpoints = <<"/docs", "/predict", "/health">>

C7_Witness ==
  /\ last.path = "/nonexistent"
  /\ last.resp.status = 404
  /\ analyzer = "None"

(* C8: a request moves RECEIVED, VALIDATED, ANALYZED, RESPONDED in that     *)
(* order or leaves the sequence for ERROR; it has exactly one response once *)
(* it has ended and none before; the classifier is invoked at most once,    *)
(* exactly once when the answer is 200 and not at all when it is 400 or     *)
(* 503.                                                                     *)
C8_Phases ==
  {<<"idle", "RECEIVED">>, <<"RESPONDED", "RECEIVED">>, <<"ERROR", "RECEIVED">>,
   <<"RECEIVED", "VALIDATED">>, <<"VALIDATED", "ANALYZED">>, <<"ANALYZED", "RESPONDED">>,
   <<"RECEIVED", "ERROR">>, <<"VALIDATED", "ERROR">>, <<"ANALYZED", "ERROR">>}

C8_RequestLifecycle ==
  /\ [](/\ calls \in {0, 1}
        /\ sent = (IF Terminal THEN 1 ELSE 0)
        /\ Terminal => resp.status \in {200, 400, 500, 503}
        /\ (pc = "RESPONDED") = (Terminal /\ resp.status = 200)
        /\ (Terminal /\ resp.status = 200) => calls = 1
        /\ (Terminal /\ resp.status \in {400, 503}) => calls = 0
        /\ pc = "ANALYZED" => calls = 1)
  /\ [][pc' # pc => <<pc, pc'>> \in C8_Phases]_vars

C8_Witness ==
  /\ pc = "ERROR"
  /\ resp.status = 500
  /\ calls = 1
  /\ sent = 1
  /\ result # None

(* C9: analyze returns the label of a pair whose score is the largest of    *)
(* all pairs the classifier returned, the first such pair in the returned   *)
(* order, with that pair's score rounded to 4 decimals.                     *)
C9_MaxScoreFirstWins ==
  (pc = "ANALYZED") =>
    \E i \in DOMAIN raw.scores :
      /\ \A j \in DOMAIN raw.scores : raw.scores[j].score <= raw.scores[i].score
      /\ \A j \in 1..(i - 1) : raw.scores[j].score < raw.scores[i].score
      /\ result.sentiment = raw.scores[i].label
      /\ result.confidence % 10 = 0
      /\ 2 * (result.confidence - raw.scores[i].score) \in -10..10

C9_Witness ==
  /\ pc = "ANALYZED"
  /\ Len(raw.scores) >= 2
  /\ raw.scores[1].score = raw.scores[2].score
  /\ raw.scores[1].label # raw.scores[2].label
  /\ \A j \in DOMAIN raw.scores : raw.scores[j].score <= raw.scores[1].score
  /\ result.sentiment = raw.scores[1].label

(* C10: a 200 answer always carries POSITIVE or NEGATIVE and a confidence   *)
(* in [0,1]; when analyze returns another label or a confidence outside     *)
(* [0,1] the request ends in 500 with the generic detail.                   *)
C10_OutputContract ==
  /\ resp.status = 200 => ValidLabel(resp.sentiment) /\ ValidConfidence(resp.confidence)
  /\ (Terminal /\ result # None) =>
       IF ValidLabel(result.sentiment) /\ ValidConfidence(result.confidence)
       THEN resp = [status |-> 200, sentiment |-> result.sentiment,
                    confidence |-> result.confidence]
       ELSE pc = "ERROR" /\ ServerError

C10_Witness ==
  /\ pc = "ERROR"
  /\ result # None
  /\ ValidLabel(result.sentiment)
  /\ result.confidence > ScoreOne
  /\ ServerError

====
